---- MODULE Spec2Model ----
(***************************************************************************)
(* The video render queue (class VideoRenderQueue) and the linked-list     *)
(* Queue<T> it is built on.  A job is an object shared by the history      *)
(* array and the queue's nodes; here a job reference is the job's index in *)
(* history, and a node reference is the node's address in the heap         *)
(* queue.nodes.  Every action is one run-to-completion piece of the        *)
(* single-threaded program: a public call, or the continuation of          *)
(* processNext after its await.  A job's createdAt and the other console   *)
(* lines are written once and never read; they are left out.               *)
(*                                                                         *)
(* The Queue<T> class is also modelled on its own: q is a queue that is    *)
(* called directly, with the methods of both of its versions (the print    *)
(* spooler's has enqueueFront), and trace is the calls made on it.         *)
(***************************************************************************)
EXTENDS Integers, Sequences, FiniteSets, TLC

\* Bounds of the model: the number of enqueue calls, their number under the
\* specification with fairness, and the number of calls made on the queue q.
MaxJobs == 4

MaxFairJobs == 3

MaxCalls == 5

\* How many documents are sent to the print spooler at most.
MaxTrabajos == 3

\* How many times procesarCola is called at most.
MaxLlamadas == 2

\* ------------------------------------------------------------------ types
EffectType == {"color_grade", "blur", "trim", "speed_change", "transition"}

Priority == {"high", "normal", "low"}

JobStatus == {"pending", "processing", "done", "cancelled"}

\* The calls of enqueue the model makes, each any number of times and in any
\* order: the calls runSimulation makes for seg_001 and seg_002.
Calls ==
    {[segmentId |-> "seg_001", effect |-> "color_grade", priority |-> "high"],
     [segmentId |-> "seg_002", effect |-> "blur", priority |-> "normal"],
     [segmentId |-> "seg_002", effect |-> "speed_change", priority |-> "normal"]}

Segments == {c.segmentId : c \in Calls}

\* The first calls of runSimulation: three segments, one effect each.
OpeningCalls ==
    {[segmentId |-> "seg_001", effect |-> "color_grade", priority |-> "high"],
     [segmentId |-> "seg_002", effect |-> "blur", priority |-> "normal"],
     [segmentId |-> "seg_003", effect |-> "transition", priority |-> "normal"]}

\* A call of enqueue with an effect that the table of estimateRenderTime has
\* not; the type of the parameter is not checked when the program runs.
InvalidCalls ==
    {[segmentId |-> "seg_002", effect |-> "sepia", priority |-> "normal"]}

\* The print spooler's types.
Prioridad == {"alta", "normal"}

EstadoTrabajo == {"en_espera", "imprimiendo", "completado"}

\* SpoolerImpresion.MS_POR_PAGINA
MS_POR_PAGINA == 500

\* The documents the model sends to print, each any number of times and in
\* any order: three of those simularSalonDeClases sends.
Envios ==
    {[estudiante |-> "Valentina", paginas |-> 3, prioridad |-> "normal"],
     [estudiante |-> "Camilo", paginas |-> 5, prioridad |-> "normal"],
     [estudiante |-> "Profesor García", paginas |-> 1, prioridad |-> "alta"]}

\* The values put in the queue q.
Values == {1, 2}

\* By how much a timer may fire late, in ms.
Lateness == {0, 1}

\* The null reference (Node<T> | null) and the undefined result.
null == 0

undefined == 0

VARIABLES
    queue,              \* VideoRenderQueue.queue: [head, tail, size, nodes]
    history,            \* VideoRenderQueue.history: sequence of RenderJob
    cancelledSegments,  \* VideoRenderQueue.cancelledSegments
    isProcessing,       \* VideoRenderQueue.isProcessing
    jobCounter,         \* VideoRenderQueue.jobCounter
    suspended,          \* the processNext calls waiting in `await sleep(renderTime)`
    log,                \* the worker's console lines ([SKIP], [START], [DONE]), in order
    ret                 \* the job enqueue last returned, as it was on return

vars == <<queue, history, cancelledSegments, isProcessing, jobCounter,
          suspended, log, ret>>

VARIABLES
    q,                  \* a Queue<T> of its own: [head, tail, size, nodes]
    trace               \* the calls made on q and what each returned, in order

queueVars == <<q, trace>>

VARIABLES
    cola,               \* SpoolerImpresion.cola: [head, tail, size, nodes]
    historial,          \* SpoolerImpresion.historial: sequence of TrabajoImpresion
    contadorId,         \* SpoolerImpresion.contadorId
    esperando,          \* the procesarCola calls waiting in `await esperar(tiempoTotal)`
    salida,             \* the console lines [IMPRIMIENDO] and [LISTO], in order
    llamadas            \* how many times procesarCola was called

spoolerVars == <<cola, historial, contadorId, esperando, salida, llamadas>>

\* ------------------------------------------------------------- Queue<T>
\* new Queue(): head = null, tail = null, _size = 0.
EmptyQueue == [head |-> null, tail |-> null, size |-> 0, nodes |-> <<>>]

\* Queue.enqueueFront(value), of the print spooler's queue.
QueueEnqueueFront(qu, value) ==
    LET node == Len(qu.nodes) + 1
    IN  [head  |-> node,
         tail  |-> IF qu.tail = null THEN node ELSE qu.tail,
         size  |-> qu.size + 1,
         nodes |-> Append(qu.nodes, [value |-> value, next |-> qu.head])]

\* A variant of enqueue that links the new node before head.
QueueEnqueueAtHead(qu, value) == QueueEnqueueFront(qu, value)

\* Queue.enqueue(value)
QueueEnqueue(qu, value) ==
    LET node == Len(qu.nodes) + 1
        allocated == Append(qu.nodes, [value |-> value, next |-> null])
        linked == IF qu.tail # null
                  THEN [allocated EXCEPT ![qu.tail].next = node]
                  ELSE allocated
    IN  [head  |-> IF qu.head = null THEN node ELSE qu.head,
         tail  |-> node,
         size  |-> qu.size + 1,
         nodes |-> linked]

\* Variants of dequeue: one without the test for the empty queue, one that
\* leaves tail as it is when the last node goes.
QueueDequeueUnguarded(qu) ==
    IF qu.head = null
    THEN [queue |-> [qu EXCEPT !.size = @ - 1], value |-> undefined]
    ELSE LET next == qu.nodes[qu.head].next
         IN  [queue |-> [qu EXCEPT !.head = next,
                                   !.tail = IF next = null THEN null ELSE @,
                                   !.size = @ - 1],
              value |-> qu.nodes[qu.head].value]

QueueDequeueKeepsTail(qu) ==
    IF qu.head = null
    THEN [queue |-> qu, value |-> undefined]
    ELSE [queue |-> [qu EXCEPT !.head = qu.nodes[qu.head].next,
                               !.size = @ - 1],
          value |-> qu.nodes[qu.head].value]

\* Queue.dequeue(): the queue after the call and the value returned.
QueueDequeue(qu) ==
    IF qu.head = null
    THEN [queue |-> qu, value |-> undefined]
    ELSE LET next == qu.nodes[qu.head].next
         IN  [queue |-> [qu EXCEPT !.head = next,
                                   !.tail = IF next = null THEN null ELSE @,
                                   !.size = @ - 1],
              value |-> qu.nodes[qu.head].value]

\* A variant of peek that reads the last node.
QueuePeekTail(qu) ==
    IF qu.tail = null THEN undefined ELSE qu.nodes[qu.tail].value

\* Queue.peek()
QueuePeek(qu) == IF qu.head = null THEN undefined ELSE qu.nodes[qu.head].value

\* A variant of isEmpty that is one off.
QueueIsEmptyOneOff(qu) == qu.size <= 1

\* get isEmpty
QueueIsEmpty(qu) == qu.size = 0

\* Queue.toArray(): the values met walking the next references from head.
RECURSIVE WalkFrom(_, _, _)
WalkFrom(qu, node, fuel) ==
    IF node = null \/ fuel = 0
    THEN <<>>
    ELSE <<qu.nodes[node].value>> \o WalkFrom(qu, qu.nodes[node].next, fuel - 1)

QueueToArray(qu) == WalkFrom(qu, qu.head, Len(qu.nodes))

\* ------------------------------------------------------ VideoRenderQueue
\* The scheduler's fields as one record, so that the methods compose.
State ==
    [queue |-> queue, history |-> history,
     cancelledSegments |-> cancelledSegments, isProcessing |-> isProcessing,
     jobCounter |-> jobCounter, suspended |-> suspended, log |-> log]

Install(st) ==
    /\ queue' = st.queue
    /\ history' = st.history
    /\ cancelledSegments' = st.cancelledSegments
    /\ isProcessing' = st.isProcessing
    /\ jobCounter' = st.jobCounter
    /\ suspended' = st.suspended
    /\ log' = st.log

\* A console line of the worker: its tag and the job it names.
Line(tag, job) == [tag |-> tag, job |-> job]

\* estimateRenderTime(effect): the table times, and the lookup times[effect],
\* which is undefined for a key the table has not.
times ==
    [trim |-> 100, speed_change |-> 200, color_grade |-> 350, blur |-> 300,
     transition |-> 250]

estimateRenderTime(effect) ==
    IF effect \in DOMAIN times THEN times[effect] ELSE undefined

\* Variants of the cancellation test: one that compares the wrong field and
\* so never matches, one that also takes the job being rendered.
IsStaleWrongField(job, segmentId) ==
    job.effect = segmentId /\ job.status = "pending"

IsStaleOrActive(job, segmentId) ==
    job.segmentId = segmentId /\ job.status \in {"pending", "processing"}

IsStaleAnySegment(job, segmentId) == job.status = "pending"

\* The test of the cancellation loop: job.segmentId === segmentId &&
\* job.status === "pending".
IsStale(job, segmentId) ==
    job.segmentId = segmentId /\ job.status = "pending"

\* A variant of the cancellation that also takes the stale job out of the
\* queue when it is the head.
CancelPendingAndUnlink(st, segmentId) ==
    [st EXCEPT
        !.cancelledSegments = @ \cup {segmentId},
        !.history = [i \in 1..Len(@) |->
                        IF IsStale(@[i], segmentId)
                        THEN [@[i] EXCEPT !.status = "cancelled"]
                        ELSE @[i]],
        !.queue = IF /\ @.head # null
                     /\ IsStale(st.history[@.nodes[@.head].value], segmentId)
                  THEN QueueDequeue(@).queue
                  ELSE @]

\* cancelPendingForSegment(segmentId), as a function of the fields.
CancelPending(st, segmentId) ==
    [st EXCEPT
        !.cancelledSegments = @ \cup {segmentId},
        !.history = [i \in 1..Len(@) |->
                        IF IsStale(@[i], segmentId)
                        THEN [@[i] EXCEPT !.status = "cancelled"]
                        ELSE @[i]]]

\* A variant of the worker's test that misspells the status and never skips.
WasCancelledMisspelt(job) == job.status = "canceled"

\* The test processNext makes on the job it dequeued.
WasCancelled(job) == job.status = "cancelled"

\* A variant of processNext that finds the queue empty and leaves
\* isProcessing as it is.
RECURSIVE ProcessNextStaysBusy(_)
ProcessNextStaysBusy(st) ==
    IF QueueIsEmpty(st.queue)
    THEN st
    ELSE LET d == QueueDequeue(st.queue)
             job == d.value
             taken == [st EXCEPT !.isProcessing = TRUE, !.queue = d.queue]
         IN  IF WasCancelled(st.history[job])
             THEN ProcessNextStaysBusy(
                      [taken EXCEPT !.log = Append(@, Line("SKIP", job))])
             ELSE [taken EXCEPT
                      !.history[job].status = "processing",
                      !.log = Append(@, Line("START", job)),
                      !.suspended = @ \cup
                          {[job |-> job,
                            renderTime |-> estimateRenderTime(st.history[job].effect)]}]

\* processNext(), up to its await (or its return): the fields afterwards.
RECURSIVE ProcessNext(_)
ProcessNext(st) ==
    IF QueueIsEmpty(st.queue)
    THEN [st EXCEPT !.isProcessing = FALSE]
    ELSE LET d == QueueDequeue(st.queue)
             job == d.value
             taken == [st EXCEPT !.isProcessing = TRUE, !.queue = d.queue]
         IN  IF WasCancelled(st.history[job])
             THEN ProcessNext([taken EXCEPT !.log = Append(@, Line("SKIP", job))])
             ELSE [taken EXCEPT
                      !.history[job].status = "processing",
                      !.log = Append(@, Line("START", job)),
                      !.suspended = @ \cup
                          {[job |-> job,
                            renderTime |-> estimateRenderTime(st.history[job].effect)]}]

\* Variants of enqueue's guard: one that starts a worker on every call, one
\* that starts none.
WorkerIdleUnchecked(st) == TRUE

WorkerIdleNever(st) == FALSE

\* A variant of the continuation that takes the time from the moment the
\* timer was due.
ResumedTimedFromDue(st, w, late) ==
    ProcessNext(
        [st EXCEPT
            !.suspended = @ \ {w},
            !.history[w.job] =
                ("durationMs" :> late) @@ [@ EXCEPT !.status = "done"],
            !.log = Append(@, Line("DONE", w.job))])

\* A variant of the continuation that does not record the duration.
ResumedWithoutDuration(st, w, late) ==
    ProcessNext(
        [st EXCEPT
            !.suspended = @ \ {w},
            !.history[w.job].status = "done",
            !.log = Append(@, Line("DONE", w.job))])

\* processNext() from its await on, its closing call of processNext()
\* included.  Date.now() - startTime is the render time plus the timer's
\* lateness.
Resumed(st, w, late) ==
    ProcessNext(
        [st EXCEPT
            !.suspended = @ \ {w},
            !.history[w.job] =
                ("durationMs" :> (w.renderTime + late))
                @@ [@ EXCEPT !.status = "done"],
            !.log = Append(@, Line("DONE", w.job))])

\* Math.round(sum / n) for sum >= 0 and n > 0: a half is rounded upwards.
RoundedQuotient(sum, n) == (2 * sum + n) \div (2 * n)

\* renderTimes.reduce((a, b) => a + b, 0)
RECURSIVE SumOf(_)
SumOf(xs) == IF xs = <<>> THEN 0 ELSE Head(xs) + SumOf(Tail(xs))

\* The loop of getStats over history from job i on: the counts and the
\* render times it has gathered.
RECURSIVE StatsLoop(_, _, _)
StatsLoop(h, i, acc) ==
    IF i > Len(h)
    THEN acc
    ELSE StatsLoop(h, i + 1,
             [counts |-> [acc.counts EXCEPT ![h[i].status] = @ + 1],
              renderTimes |->
                  IF h[i].status = "done" /\ "durationMs" \in DOMAIN h[i]
                  THEN Append(acc.renderTimes, h[i].durationMs)
                  ELSE acc.renderTimes])

\* Variants of getStats: one whose loop misses the first job, one that
\* divides the sum by the number of all jobs.
GetStatsFromSecond(h) ==
    LET acc == StatsLoop(h, 2,
                   [counts |-> [pending |-> 0, processing |-> 0, done |-> 0,
                                cancelled |-> 0],
                    renderTimes |-> <<>>])
        n == Len(acc.renderTimes)
    IN  [pending |-> acc.counts.pending,
         processing |-> acc.counts.processing,
         done |-> acc.counts.done,
         cancelled |-> acc.counts.cancelled,
         averageRenderTimeMs |->
             IF n > 0 THEN RoundedQuotient(SumOf(acc.renderTimes), n) ELSE 0]

GetStatsOverAll(h) ==
    LET acc == StatsLoop(h, 1,
                   [counts |-> [pending |-> 0, processing |-> 0, done |-> 0,
                                cancelled |-> 0],
                    renderTimes |-> <<>>])
        n == Len(acc.renderTimes)
    IN  [pending |-> acc.counts.pending,
         processing |-> acc.counts.processing,
         done |-> acc.counts.done,
         cancelled |-> acc.counts.cancelled,
         averageRenderTimeMs |->
             IF n > 0 THEN RoundedQuotient(SumOf(acc.renderTimes), Len(h)) ELSE 0]

\* getStats()
GetStats(h) ==
    LET acc == StatsLoop(h, 1,
                   [counts |-> [pending |-> 0, processing |-> 0, done |-> 0,
                                cancelled |-> 0],
                    renderTimes |-> <<>>])
        n == Len(acc.renderTimes)
    IN  [pending |-> acc.counts.pending,
         processing |-> acc.counts.processing,
         done |-> acc.counts.done,
         cancelled |-> acc.counts.cancelled,
         averageRenderTimeMs |->
             IF n > 0 THEN RoundedQuotient(SumOf(acc.renderTimes), n) ELSE 0]

\* The guard of enqueue's last statement: if (!this.isProcessing).
WorkerIdle(st) == ~st.isProcessing

\* A variant of enqueue that puts a job of high priority at the front of the
\* queue, as the print spooler does.
EnqueueByPriority(st, segmentId, effect, priority) ==
    LET cancelled == CancelPending(st, segmentId)
        id == cancelled.jobCounter + 1
        job == [id |-> id, segmentId |-> segmentId, effect |-> effect,
                priority |-> priority, status |-> "pending"]
        ref == Len(cancelled.history) + 1
        queued == [cancelled EXCEPT
                      !.jobCounter = id,
                      !.queue = IF priority = "high"
                                THEN QueueEnqueueFront(@, ref)
                                ELSE QueueEnqueue(@, ref),
                      !.history = Append(@, job)]
    IN  IF WorkerIdle(queued) THEN ProcessNext(queued) ELSE queued

\* A variant of enqueue that puts the new job first in history.
EnqueuePrepending(st, segmentId, effect, priority) ==
    LET cancelled == CancelPending(st, segmentId)
        id == cancelled.jobCounter + 1
        job == [id |-> id, segmentId |-> segmentId, effect |-> effect,
                priority |-> priority, status |-> "pending"]
        queued == [cancelled EXCEPT
                      !.jobCounter = id,
                      !.queue = QueueEnqueue(@, 1),
                      !.history = <<job>> \o @]
    IN  IF WorkerIdle(queued) THEN ProcessNext(queued) ELSE queued

\* enqueue(params), as a function of the fields.
Enqueue(st, segmentId, effect, priority) ==
    LET cancelled == CancelPending(st, segmentId)
        id == cancelled.jobCounter + 1
        job == [id |-> id, segmentId |-> segmentId, effect |-> effect,
                priority |-> priority, status |-> "pending"]
        ref == Len(cancelled.history) + 1
        queued == [cancelled EXCEPT
                      !.jobCounter = id,
                      !.queue = QueueEnqueue(@, ref),
                      !.history = Append(@, job)]
    IN  IF WorkerIdle(queued) THEN ProcessNext(queued) ELSE queued

\* ---------------------------------------------------------------- actions
\* new Queue(), and no call made on it yet.
QueueInit == q = EmptyQueue /\ trace = <<>>

\* new SpoolerImpresion(), and no call made on it yet.
SpoolerInit ==
    /\ cola = EmptyQueue
    /\ historial = <<>>
    /\ contadorId = 0
    /\ esperando = {}
    /\ salida = <<>>
    /\ llamadas = 0

\* new VideoRenderQueue(), and the queue q and the print spooler beside it.
Init ==
    /\ QueueInit
    /\ SpoolerInit
    /\ queue = EmptyQueue
    /\ history = <<>>
    /\ cancelledSegments = {}
    /\ isProcessing = FALSE
    /\ jobCounter = 0
    /\ suspended = {}
    /\ log = <<>>
    /\ ret = <<>>

\* A call of enqueue({segmentId, effect, priority}); it returns the job.
enqueue(segmentId, effect, priority) ==
    /\ jobCounter < MaxJobs
    /\ \E after \in {Enqueue(State, segmentId, effect, priority)} :
           /\ Install(after)
           /\ ret' = <<after.history[Len(history) + 1]>>
    /\ UNCHANGED <<queueVars, spoolerVars>>

\* A call of cancelPendingForSegment(segmentId); it returns nothing.
cancelPendingForSegment(segmentId) ==
    /\ \E after \in {CancelPending(State, segmentId)} : Install(after)
    /\ UNCHANGED <<ret, queueVars, spoolerVars>>

\* The timer of a suspended processNext fires and the call runs on.
resume(w, late) ==
    /\ w \in suspended
    /\ \E after \in {Resumed(State, w, late)} : Install(after)
    /\ UNCHANGED <<ret, queueVars, spoolerVars>>

Submit == \E c \in Calls : enqueue(c.segmentId, c.effect, c.priority)

Cancel == \E s \in Segments : cancelPendingForSegment(s)

Resume == \E w \in suspended, late \in Lateness : resume(w, late)

Next == Submit \/ Cancel \/ Resume

Spec == Init /\ [][Next]_vars

\* The timer of a suspended worker always fires in the end.
FairNext == (jobCounter < MaxFairJobs /\ Submit) \/ Cancel \/ Resume

FairSpec == Init /\ [][FairNext]_vars /\ WF_vars(Resume)

\* Runs in which cancelPendingForSegment is called by enqueue only.
SubmitOpening == \E c \in OpeningCalls : enqueue(c.segmentId, c.effect, c.priority)

OpeningNext == SubmitOpening \/ Resume

OpeningSpec == Init /\ [][OpeningNext]_vars

\* Runs in which enqueue is also called with an effect outside the table.
SubmitInvalid == \E c \in InvalidCalls : enqueue(c.segmentId, c.effect, c.priority)

InvalidNext == Submit \/ SubmitInvalid \/ Cancel \/ Resume

InvalidSpec == Init /\ [][InvalidNext]_vars

\* ------------------------------------------------- the queue q on its own
\* A call made on q: the method, its argument and what it returned (nothing,
\* one value, or the array).
Call(op, arg, result) == [op |-> op, arg |-> arg, result |-> result]

Called(after, call) ==
    /\ Len(trace) < MaxCalls
    /\ q' = after
    /\ trace' = Append(trace, call)
    /\ UNCHANGED <<vars, spoolerVars>>

queueEnqueue(value) ==
    Called(QueueEnqueue(q, value), Call("enqueue", value, <<>>))

queueEnqueueFront(value) ==
    Called(QueueEnqueueFront(q, value), Call("enqueueFront", value, <<>>))

queueDequeue ==
    \E d \in {QueueDequeue(q)} :
        Called(d.queue, Call("dequeue", undefined, <<d.value>>))

queuePeek == Called(q, Call("peek", undefined, <<QueuePeek(q)>>))

queueToArray == Called(q, Call("toArray", undefined, QueueToArray(q)))

QueueNext ==
    \/ \E value \in Values : queueEnqueue(value)
    \/ \E value \in Values : queueEnqueueFront(value)
    \/ queueDequeue
    \/ queuePeek
    \/ queueToArray

QueueSpec == Init /\ [][QueueNext]_queueVars

\* ------------------------------------------------------ SpoolerImpresion
\* The spooler's fields as one record, so that the methods compose.
Spooler ==
    [cola |-> cola, historial |-> historial, contadorId |-> contadorId,
     esperando |-> esperando, salida |-> salida]

InstallSpooler(sp) ==
    /\ cola' = sp.cola
    /\ historial' = sp.historial
    /\ contadorId' = sp.contadorId
    /\ esperando' = sp.esperando
    /\ salida' = sp.salida

\* enviarAImprimir(datos), as a function of the fields: a document of
\* priority alta goes to the front of the queue, any other to its end.
EnviarAImprimir(sp, datos) ==
    LET id == sp.contadorId + 1
        trabajo == [id |-> id, estudiante |-> datos.estudiante,
                    paginas |-> datos.paginas, prioridad |-> datos.prioridad,
                    estado |-> "en_espera"]
        ref == Len(sp.historial) + 1
    IN  [sp EXCEPT
            !.contadorId = id,
            !.cola = IF datos.prioridad = "alta"
                     THEN QueueEnqueueFront(@, ref)
                     ELSE QueueEnqueue(@, ref),
            !.historial = Append(@, trabajo)]

\* procesarCola() from the test of its while loop up to its await, or to its
\* end when the queue is empty.
ProcesarCola(sp) ==
    IF QueueIsEmpty(sp.cola)
    THEN sp
    ELSE LET d == QueueDequeue(sp.cola)
             trabajo == d.value
         IN  [sp EXCEPT
                 !.cola = d.queue,
                 !.historial[trabajo].estado = "imprimiendo",
                 !.salida = Append(@, Line("IMPRIMIENDO", trabajo)),
                 !.esperando = @ \cup
                     {[trabajo |-> trabajo,
                       tiempoTotal |->
                           sp.historial[trabajo].paginas * MS_POR_PAGINA]}]

\* procesarCola() from its await on, up to the next await or to its end.
Reanudado(sp, w) ==
    ProcesarCola(
        [sp EXCEPT
            !.esperando = @ \ {w},
            !.historial[w.trabajo] =
                ("tiempoImpresionMs" :> w.tiempoTotal)
                @@ [@ EXCEPT !.estado = "completado"],
            !.salida = Append(@, Line("LISTO", w.trabajo))])

\* obtenerEstadisticas()
ObtenerEstadisticas(h) ==
    LET completados == SelectSeq(h, LAMBDA t : t.estado = "completado")
        conTiempo == SelectSeq(completados,
                               LAMBDA t : "tiempoImpresionMs" \in DOMAIN t)
        tiempos == [k \in DOMAIN conTiempo |-> conTiempo[k].tiempoImpresionMs]
    IN  [totalTrabajos |-> Len(h),
         completados |-> Len(completados),
         paginasTotales |-> SumOf([k \in DOMAIN h |-> h[k].paginas]),
         tiempoPromedioMs |->
             IF Len(tiempos) > 0
             THEN RoundedQuotient(SumOf(tiempos), Len(tiempos))
             ELSE 0,
         ordenDeAtencion |->
             [k \in DOMAIN completados |-> completados[k].estudiante]]

\* A call of enviarAImprimir(datos).
enviarAImprimir(datos) ==
    /\ contadorId < MaxTrabajos
    /\ \E after \in {EnviarAImprimir(Spooler, datos)} : InstallSpooler(after)
    /\ UNCHANGED <<llamadas, vars, queueVars>>

\* A call of procesarCola(); it runs up to its first await.
procesarCola ==
    /\ llamadas < MaxLlamadas
    /\ llamadas' = llamadas + 1
    /\ \E after \in {ProcesarCola(Spooler)} : InstallSpooler(after)
    /\ UNCHANGED <<vars, queueVars>>

\* The timer of a waiting procesarCola fires and the call runs on. Which of
\* two timers fires first depends on when the calls were made; the model
\* lets either fire.
reanudar(w) ==
    /\ w \in esperando
    /\ \E after \in {Reanudado(Spooler, w)} : InstallSpooler(after)
    /\ UNCHANGED <<llamadas, vars, queueVars>>

Enviar == \E datos \in Envios : enviarAImprimir(datos)

Reanudar == \E w \in esperando : reanudar(w)

SpoolerNext == Enviar \/ procesarCola \/ Reanudar

SpoolerSpec == Init /\ [][SpoolerNext]_spoolerVars

\* ----------------------------------------------------------------- claims
Jobs == DOMAIN history

StatusOf(i) == history[i].status

JobsOf(segmentId, statuses) ==
    {i \in Jobs : history[i].segmentId = segmentId /\ StatusOf(i) \in statuses}

Logged(tag, i) == \E k \in DOMAIN log : log[k] = Line(tag, i)

\* C1: between calls at most one job of a segment is pending, and when
\* enqueue(s, ...) returns, the job it created is the only job of segment s
\* that can be pending.
OnePendingPerSegment ==
    /\ [](\A s \in Segments : Cardinality(JobsOf(s, {"pending"})) <= 1)
    /\ [][\A c \in Calls :
              enqueue(c.segmentId, c.effect, c.priority) =>
                  JobsOf(c.segmentId, {"pending"})' \subseteq {Len(history')}]_vars

\* A resubmission has just superseded a pending job of its segment.
SupersededPending ==
    \E i, j \in Jobs :
        /\ i < j
        /\ history[i].segmentId = history[j].segmentId
        /\ StatusOf(i) = "cancelled"
        /\ StatusOf(j) = "pending"
        /\ ret = <<history[j]>>

\* C2 as stated: between calls at most one job of a segment is pending or
\* processing.
OneActivePerSegment ==
    \A s \in Segments : Cardinality(JobsOf(s, {"pending", "processing"})) <= 1

\* C2 as amended: between calls at most one job of a segment is pending and
\* at most one is processing, and where both exist the processing one is the
\* older.
OnePendingOneProcessingPerSegment ==
    \A s \in Segments :
        /\ Cardinality(JobsOf(s, {"pending"})) <= 1
        /\ Cardinality(JobsOf(s, {"processing"})) <= 1
        /\ \A i \in JobsOf(s, {"pending"}), j \in JobsOf(s, {"processing"}) : j < i

\* A segment was resubmitted while its job was being rendered.
ResubmittedWhileProcessing ==
    \E s \in Segments :
        JobsOf(s, {"pending"}) # {} /\ JobsOf(s, {"processing"}) # {}

\* C3: a job that is cancelled stays cancelled in every later state.
CancelledIsFinal ==
    [][\A i \in Jobs :
          StatusOf(i) = "cancelled" => history'[i].status = "cancelled"]_vars

\* The worker has dequeued a cancelled job.
CancelledJobDequeued ==
    \E i \in Jobs : Logged("SKIP", i) /\ StatusOf(i) = "cancelled"

\* C4: a job appears as pending (or, when enqueue starts the idle worker, as
\* processing, its first line of the log being its [START]); after that its
\* status changes only pending -> processing, pending -> cancelled or
\* processing -> done.
AllowedTransitions ==
    {<<"pending", "processing">>, <<"pending", "cancelled">>,
     <<"processing", "done">>}

StatusTransitions ==
    [][/\ \A i \in Jobs :
              \/ history'[i].status = StatusOf(i)
              \/ <<StatusOf(i), history'[i].status>> \in AllowedTransitions
       /\ \A i \in DOMAIN history' \ Jobs :
              \/ history'[i].status = "pending"
              \/ /\ history'[i].status = "processing"
                 /\ ~isProcessing
                 /\ log' = Append(log, Line("START", i))]_vars

\* Each of the three transitions has been taken.
AllTransitionsTaken ==
    /\ \E i \in Jobs : StatusOf(i) = "done"
    /\ \E i \in Jobs : StatusOf(i) = "cancelled"
    /\ \E i \in Jobs : StatusOf(i) = "processing"

\* Where the worker's line about job i stands in the log.
Pos(tag, i) == CHOOSE k \in DOMAIN log : log[k] = Line(tag, i)

InOrder(tag, a, b) ==
    Logged(tag, b) => Logged(tag, a) /\ Pos(tag, a) < Pos(tag, b)

\* C5: of two jobs that are not cancelled, the one enqueued first starts first
\* and is done first, whatever their segments, and the queue holds the jobs
\* in the order of their submission.
FifoService ==
    /\ \A a, b \in Jobs :
           a < b /\ StatusOf(a) # "cancelled" /\ StatusOf(b) # "cancelled" =>
               InOrder("START", a, b) /\ InOrder("DONE", a, b)
    /\ LET waiting == QueueToArray(queue)
       IN  \A k, l \in DOMAIN waiting : k < l => waiting[k] < waiting[l]

\* A resubmission for a segment started only after a job that was submitted
\* after the job it superseded was done.
ResubmissionServedLast ==
    \E a, m, b \in Jobs :
        /\ a < m /\ m < b
        /\ history[a].segmentId = history[b].segmentId
        /\ history[m].segmentId # history[b].segmentId
        /\ StatusOf(a) = "cancelled"
        /\ Logged("DONE", m) /\ Logged("START", b)
        /\ Pos("DONE", m) < Pos("START", b)

\* C6: at most one processNext is suspended and at most one job is
\* processing; an enqueue made while the worker is suspended starts no
\* second worker.
SingleWorker ==
    /\ [](/\ Cardinality(suspended) <= 1
          /\ Cardinality({i \in Jobs : StatusOf(i) = "processing"}) <= 1)
    /\ [][\A c \in Calls :
              suspended # {} /\ enqueue(c.segmentId, c.effect, c.priority) =>
                  suspended' = suspended]_vars

\* An enqueue was made while the worker was suspended.
EnqueuedWhileSuspended ==
    /\ suspended # {}
    /\ ret # <<>>
    /\ ret[1].id \in Jobs
    /\ ret = <<history[ret[1].id]>>
    /\ ret[1].status = "pending"

\* C7 as stated: the job enqueue returns is pending when the call returns.
ReturnedJobIsPending == ret # <<>> => ret[1].status = "pending"

\* C7 as amended: the job enqueue returns is pending when the worker was
\* active at the call, and already processing when the worker was idle.
ReturnedJobStatus ==
    [][\A c \in Calls :
          enqueue(c.segmentId, c.effect, c.priority) =>
              /\ ret' = <<history'[Len(history')]>>
              /\ ret'[1].status = IF isProcessing THEN "pending" ELSE "processing"]_vars

\* enqueue returned a pending job, and an earlier call a processing one.
ReturnedBothWays ==
    /\ ret # <<>>
    /\ ret[1].status = "pending"
    /\ ret[1].id > 1
    /\ Logged("START", 1)

\* C8: enqueue and cancelPendingForSegment leave a processing job as it is,
\* a processing job changes to done and to nothing else, and no job is
\* processing for ever: a processing job becomes done.
ActiveRenderCompletes ==
    /\ [][(\/ \E s \in Segments : cancelPendingForSegment(s)
           \/ \E c \in Calls : enqueue(c.segmentId, c.effect, c.priority)) =>
              \A i \in Jobs :
                  StatusOf(i) = "processing" => history'[i] = history[i]]_vars
    /\ [][\A i \in Jobs :
              StatusOf(i) = "processing" =>
                  \/ history'[i] = history[i]
                  \/ /\ history'[i].status = "done"
                     /\ "durationMs" \in DOMAIN history'[i]]_vars
    /\ \A i \in 1..MaxFairJobs :
           []<>(~(i \in Jobs /\ StatusOf(i) = "processing"))

\* A job was done although its segment was resubmitted while it was
\* processing: the resubmission waited in the queue until then.
ResubmittedRenderDone ==
    \E j, i \in Jobs :
        /\ j < i
        /\ history[j].segmentId = history[i].segmentId
        /\ StatusOf(j) = "done"
        /\ Logged("DONE", j) /\ Logged("START", i)
        /\ Pos("START", i) = Pos("DONE", j) + 1

\* C9: a cancellation changes the status of the stale jobs and nothing else;
\* the queue keeps its size and its elements, and elements leave it at the
\* head only.
IsSuffix(t, u) ==
    Len(t) <= Len(u) /\ t = SubSeq(u, Len(u) - Len(t) + 1, Len(u))

LazyCancellation ==
    [][/\ \A s \in Segments :
              cancelPendingForSegment(s) =>
                  /\ queue' = queue
                  /\ Len(history') = Len(history)
                  /\ \A i \in Jobs :
                         history'[i] =
                             IF /\ history[i].segmentId = s
                                /\ StatusOf(i) = "pending"
                             THEN [history[i] EXCEPT !.status = "cancelled"]
                             ELSE history[i]
       /\ \A i \in Jobs :
              StatusOf(i) = "pending" /\ history'[i].status = "cancelled" =>
                  /\ queue'.size >= queue.size
                  /\ SubSeq(QueueToArray(queue'), 1, queue.size)
                         = QueueToArray(queue)
       /\ \/ IsSuffix(QueueToArray(queue'), QueueToArray(queue))
          \/ /\ QueueToArray(queue') # <<>>
             /\ IsSuffix(SubSeq(QueueToArray(queue'), 1, queue'.size - 1),
                         QueueToArray(queue))]_vars

\* A cancelled job is still in the queue, behind a pending one.
CancelledJobStillQueued ==
    LET waiting == QueueToArray(queue)
    IN  \E k, l \in DOMAIN waiting :
            /\ k < l
            /\ StatusOf(waiting[k]) = "pending"
            /\ StatusOf(waiting[l]) = "cancelled"

\* C10: a second cancelPendingForSegment(s) changes nothing the first has not
\* changed, and with no pending job of s the call changes no job, nor the
\* queue, nor the worker.
UnknownSegment == "seg_X"

CancelIdempotent ==
    \A s \in Segments \cup {UnknownSegment} :
        LET once == CancelPending(State, s)
            twice == CancelPending(once, s)
        IN  /\ twice = once
            /\ GetStats(twice.history) = GetStats(once.history)
            /\ JobsOf(s, {"pending"}) = {} =>
                   /\ once.history = history
                   /\ once.queue = queue
                   /\ once.isProcessing = isProcessing
                   /\ once.suspended = suspended
                   /\ GetStats(once.history) = GetStats(history)

\* cancelPendingForSegment has cancelled a job that no enqueue superseded,
\* and a further call for its segment finds nothing pending.
CancelledWithoutResubmission ==
    \E i \in Jobs :
        /\ StatusOf(i) = "cancelled"
        /\ history[i].segmentId \in cancelledSegments
        /\ \A j \in Jobs : j > i => history[j].segmentId # history[i].segmentId

\* C11: the four counts of getStats are the numbers of the jobs of history
\* with each status, and they add up to the length of history.
CountsPartitionHistory ==
    LET stats == GetStats(history)
    IN  /\ stats.pending + stats.processing + stats.done + stats.cancelled
               = Len(history)
        /\ \A status \in JobStatus :
               stats[status] = Cardinality({i \in Jobs : StatusOf(i) = status})

\* Jobs of all four statuses are in history.
AllStatusesPresent ==
    \A status \in JobStatus : \E i \in Jobs : StatusOf(i) = status

\* The sum of durationMs over a set of jobs.
RECURSIVE DurationSum(_)
DurationSum(jobs) ==
    IF jobs = {}
    THEN 0
    ELSE LET i == CHOOSE j \in jobs : TRUE
         IN  history[i].durationMs + DurationSum(jobs \ {i})

DoneJobs == {i \in Jobs : StatusOf(i) = "done"}

\* C12: averageRenderTimeMs is the integer nearest to the mean of durationMs
\* over the done jobs (the upper one of two equally near), and 0 when no job
\* is done.
AverageOverDoneJobs ==
    LET average == GetStats(history).averageRenderTimeMs
        n == Cardinality(DoneJobs)
        sum == DurationSum(DoneJobs)
    IN  IF n = 0
        THEN average = 0
        ELSE /\ 2 * n * average <= 2 * sum + n
             /\ 2 * n * average > 2 * sum - n

\* Two jobs are done, their mean falls between two integers, and jobs that
\* are not done are in history.
AverageIsRounded ==
    /\ Cardinality(DoneJobs) = 2
    /\ DurationSum(DoneJobs) % 2 = 1
    /\ \E i \in Jobs : StatusOf(i) = "cancelled"
    /\ \E i \in Jobs : StatusOf(i) = "processing"

\* C13: a job has a durationMs if and only if it is done.
DurationIffDone ==
    \A i \in Jobs : ("durationMs" \in DOMAIN history[i]) <=> StatusOf(i) = "done"

\* A done job has its duration while cancelled, pending and processing jobs
\* have none.
DurationOnlyOnDone ==
    /\ \E i \in Jobs : StatusOf(i) = "done" /\ history[i].durationMs > 0
    /\ \E i \in Jobs : StatusOf(i) = "cancelled" /\ Logged("SKIP", i)
    /\ \E i \in Jobs : StatusOf(i) = "processing"
    /\ \E i \in Jobs : StatusOf(i) = "pending"

\* Every job is done or cancelled, the queue is empty and the worker is idle.
Quiescent ==
    /\ \A i \in Jobs : StatusOf(i) \in {"done", "cancelled"}
    /\ QueueIsEmpty(queue)
    /\ QueueToArray(queue) = <<>>
    /\ ~isProcessing
    /\ suspended = {}

\* C14: once no more jobs are submitted, and the timer of the running render
\* is fair, the scheduler comes to rest and stays there: every job is done or
\* cancelled, the queue is empty and the worker is idle. Jobs that were
\* enqueued after the worker had gone idle are among them.
EventuallyQuiescent == <>[]Quiescent

\* A job that enqueue started itself, the worker having gone idle after
\* earlier jobs, is done and the scheduler is at rest.
RestartedWorkerQuiescent ==
    /\ Quiescent
    /\ ret # <<>>
    /\ ret[1].id > 1
    /\ ret[1].status = "processing"
    /\ StatusOf(ret[1].id) = "done"
    /\ \E i \in Jobs :
           /\ i < ret[1].id
           /\ Logged("DONE", i)
           /\ Pos("DONE", i) < Pos("START", ret[1].id)

\* No two jobs of history have the same segment.
DistinctSegments ==
    \A i, j \in Jobs : i # j => history[i].segmentId # history[j].segmentId

\* C15: when jobs were enqueued for segments that are all different and
\* cancelPendingForSegment was not called, getStats of an idle worker counts
\* every job as done: pending, processing and cancelled are 0 and done is
\* the number of jobs.
DistinctSegmentsAllDone ==
    (DistinctSegments /\ ~isProcessing) =>
        LET stats == GetStats(history)
        IN  /\ stats.pending = 0
            /\ stats.processing = 0
            /\ stats.cancelled = 0
            /\ stats.done = jobCounter
            /\ jobCounter = Len(history)

\* Three jobs of three segments, the later two enqueued while the first was
\* rendered, and the worker has gone idle.
ThreeSegmentsDone ==
    /\ DistinctSegments
    /\ ~isProcessing
    /\ Len(history) = 3
    /\ \A i \in Jobs : Logged("START", i) /\ Logged("DONE", i)
    /\ Pos("START", 2) = Pos("DONE", 1) + 1
    /\ Pos("START", 3) = Pos("DONE", 2) + 1

\* The calls of trace, by method.
CallsOf(ops) == {k \in DOMAIN trace : trace[k].op \in ops}

Count(ops) == Cardinality(CallsOf(ops))

\* The calls of dequeue that returned an element.
ServedDequeues == {k \in CallsOf({"dequeue"}) : trace[k].result # <<undefined>>}

\* Among the first k calls there are no more calls of dequeue than of enqueue.
NeverAhead ==
    \A k \in DOMAIN trace :
        Cardinality({j \in 1..k : trace[j].op = "dequeue"})
            <= Cardinality({j \in 1..k : trace[j].op \in {"enqueue", "enqueueFront"}})

Max(a, b) == IF a >= b THEN a ELSE b

\* C16 as stated: after N calls of enqueue and M <= N calls of dequeue, made
\* in any order on a new queue, size is max(0, N - M).
SizeIsDifference ==
    (/\ CallsOf({"enqueueFront"}) = {}
     /\ Count({"dequeue"}) <= Count({"enqueue"})) =>
        q.size = Max(0, Count({"enqueue"}) - Count({"dequeue"}))

\* C16: size is the number of calls of enqueue less the number of calls of
\* dequeue that returned an element, and it is never negative; it is N - M
\* when no call of dequeue was made on an empty queue, which is so whenever
\* the calls of dequeue are never ahead of the calls of enqueue.
SizeIsEnqueuedLessServed ==
    /\ q.size >= 0
    /\ q.size = Count({"enqueue", "enqueueFront"}) - Cardinality(ServedDequeues)
    /\ NeverAhead =>
           /\ ServedDequeues = CallsOf({"dequeue"})
           /\ q.size = Count({"enqueue", "enqueueFront"}) - Count({"dequeue"})

\* dequeue was called on the empty queue, then enqueue twice, dequeue and
\* enqueue again: N = 3, M = 2 and size is 2.
DequeuedBeforeEnqueued ==
    /\ Len(trace) = 5
    /\ CallsOf({"enqueue"}) = {2, 3, 5}
    /\ CallsOf({"dequeue"}) = {1, 4}
    /\ ServedDequeues = {4}
    /\ q.size = 2

\* The nodes met following the next references from node, at most fuel of
\* them.
RECURSIVE NodesFrom(_, _, _)
NodesFrom(qu, node, fuel) ==
    IF node = null \/ fuel = 0
    THEN <<>>
    ELSE <<node>> \o NodesFrom(qu, qu.nodes[node].next, fuel - 1)

\* The nodes of q that are reachable from head; one more than there are nodes
\* would be met on a cycle.
Reachable == NodesFrom(q, q.head, Len(q.nodes) + 1)

\* C17: after any calls of enqueue, enqueueFront and dequeue, size is the
\* number of nodes reachable from head, tail is the last of them and has no
\* successor, and head is null exactly when tail is null, when size is 0 and
\* when isEmpty is true.
ListWellFormed ==
    /\ q.size = Len(Reachable)
    /\ \A i, j \in DOMAIN Reachable : i # j => Reachable[i] # Reachable[j]
    /\ Reachable # <<>> =>
           /\ q.tail = Reachable[Len(Reachable)]
           /\ q.nodes[q.tail].next = null
    /\ (q.head = null) <=> (q.tail = null)
    /\ (q.tail = null) <=> (q.size = 0)
    /\ (q.size = 0) <=> QueueIsEmpty(q)

\* The queue was emptied by dequeue and filled again from both ends.
RefilledFromBothEnds ==
    /\ Len(trace) = 5
    /\ trace[1].op = "enqueue"
    /\ trace[2].op = "dequeue"
    /\ trace[3].op = "enqueueFront"
    /\ trace[4].op = "enqueue"
    /\ trace[5].op = "enqueueFront"
    /\ Len(Reachable) = 3
    /\ q.tail = 3

\* head, tail and size of a queue.
Fields(qu) == <<qu.head, qu.tail, qu.size>>

\* C18: dequeue and peek called on an empty queue return undefined and leave
\* head, tail and size as they were, size being 0; and an empty queue,
\* whatever was called on it before, has the fields of a new queue and
\* answers enqueue, peek, dequeue and toArray as a new queue does.
EmptyQueueCalls ==
    /\ [][\A call \in {trace'[Len(trace')]} :
              (QueueIsEmpty(q) /\ call.op \in {"dequeue", "peek"}) =>
                  /\ call.result = <<undefined>>
                  /\ Fields(q') = Fields(q)
                  /\ q'.size = 0]_queueVars
    /\ [](QueueIsEmpty(q) =>
              /\ Fields(q) = Fields(EmptyQueue)
              /\ \A value \in Values :
                     LET one == QueueEnqueue(q, value)
                         new == QueueEnqueue(EmptyQueue, value)
                     IN  /\ one.size = new.size
                         /\ QueueToArray(one) = QueueToArray(new)
                         /\ QueuePeek(one) = QueuePeek(new)
                         /\ QueueDequeue(one).value = QueueDequeue(new).value
                         /\ Fields(QueueDequeue(one).queue) = Fields(EmptyQueue))

\* A queue was emptied; dequeue and peek then returned undefined, and the
\* value enqueued after that was the one dequeue returned.
EmptyQueueAskedThenUsed ==
    /\ Len(trace) = 5
    /\ trace[1] = Call("dequeue", undefined, <<undefined>>)
    /\ trace[2] = Call("peek", undefined, <<undefined>>)
    /\ trace[3] = Call("enqueue", 2, <<>>)
    /\ trace[4] = Call("peek", undefined, <<2>>)
    /\ trace[5] = Call("dequeue", undefined, <<2>>)
    /\ Fields(q) = Fields(EmptyQueue)

\* The first element of a sequence, undefined for the empty one.
First(seq) == IF seq = <<>> THEN undefined ELSE Head(seq)

\* The sequence of values that the first k calls of trace make of the empty
\* sequence: enqueue appends, enqueueFront prepends, dequeue drops the first.
RECURSIVE Abstract(_)
Abstract(k) ==
    IF k = 0
    THEN <<>>
    ELSE LET before == Abstract(k - 1)
             call == trace[k]
         IN  CASE call.op = "enqueue" -> Append(before, call.arg)
               [] call.op = "enqueueFront" -> <<call.arg>> \o before
               [] call.op = "dequeue" ->
                      IF before = <<>> THEN <<>> ELSE Tail(before)
               [] OTHER -> before

\* What the call k of trace returns of the sequence it is made on.
AbstractResult(k) ==
    LET before == Abstract(k - 1)
        call == trace[k]
    IN  CASE call.op \in {"dequeue", "peek"} -> <<First(before)>>
          [] call.op = "toArray" -> before
          [] OTHER -> <<>>

\* C19: the linked list behaves as the sequence of its values: every call
\* returned what it returns of the sequence (dequeue and peek the first
\* element, toArray the whole sequence in order), the list holds the
\* sequence the calls made (enqueue appending, dequeue removing the first,
\* peek and toArray changing nothing), and peek tells what the next dequeue
\* returns.
QueueIsSequence ==
    /\ \A k \in DOMAIN trace : trace[k].result = AbstractResult(k)
    /\ QueueToArray(q) = Abstract(Len(trace))
    /\ q.size = Len(Abstract(Len(trace)))
    /\ QueuePeek(q) = QueueDequeue(q).value

\* Two values were enqueued; peek returned the first, toArray both in their
\* order and dequeue the first.
TwoValuesInOrder ==
    /\ Len(trace) = 5
    /\ trace[1] = Call("enqueue", 2, <<>>)
    /\ trace[2] = Call("enqueue", 1, <<>>)
    /\ trace[3] = Call("peek", undefined, <<2>>)
    /\ trace[4] = Call("toArray", undefined, <<2, 1>>)
    /\ trace[5] = Call("dequeue", undefined, <<2>>)
    /\ QueueToArray(q) = <<1>>

\* C20: a call of enqueue with an effect that is not in the table of render
\* times creates no job, cancels no pending job and leaves the queue, history
\* and the worker as they were.
InvalidEffectRejected ==
    [][SubmitInvalid =>
           UNCHANGED <<queue, history, cancelledSegments, isProcessing,
                       jobCounter, suspended, log>>]_vars

\* The jobs in the queue, from its head on.
Queued == QueueToArray(queue)

QueuedJobs == {Queued[k] : k \in DOMAIN Queued}

\* C28: whenever the queue holds a job the worker is active, so that no job
\* waits in the queue of an idle worker.
QueuedImpliesActive ==
    /\ ~QueueIsEmpty(queue) => isProcessing
    /\ Queued # <<>> => isProcessing

\* Two jobs wait in the queue, one of them pending, while a third is
\* rendered.
JobsWaitForActiveWorker ==
    /\ Len(Queued) >= 2
    /\ \E i \in QueuedJobs : StatusOf(i) = "pending"
    /\ isProcessing
    /\ suspended # {}

Processing == {i \in Jobs : StatusOf(i) = "processing"}

\* C29: isProcessing is true exactly when one job is processing, and no more
\* than one job is: the flag is false when the last job is done or the last
\* jobs of the queue were skipped, and true while a job is rendered.
FlagIffOneProcessing ==
    /\ isProcessing <=> Cardinality(Processing) = 1
    /\ Cardinality(Processing) <= 1

\* The worker went idle after it skipped the cancelled job that was last in
\* the queue.
IdleAfterSkip ==
    /\ ~isProcessing
    /\ log # <<>>
    /\ log[Len(log)].tag = "SKIP"
    /\ \E i \in Jobs : StatusOf(i) = "done"

\* C30: the queue holds jobs of history in the order of their creation, each
\* at most once; a queued job is pending or cancelled, every pending job is
\* queued, and no processing or done job is queued.
QueueWithinHistory ==
    /\ QueuedJobs \subseteq Jobs
    /\ \A k, l \in DOMAIN Queued : k < l => Queued[k] < Queued[l]
    /\ \A i \in QueuedJobs : StatusOf(i) \in {"pending", "cancelled"}
    /\ \A i \in Jobs : StatusOf(i) = "pending" => i \in QueuedJobs
    /\ \A i \in Jobs : StatusOf(i) \in {"processing", "done"} => i \notin QueuedJobs
    /\ queue.size = Len(Queued)

\* A cancelled job is queued before a pending one, and history holds a done
\* and a processing job that are not queued.
QueueHoldsCancelledAndPending ==
    /\ Len(Queued) = 2
    /\ StatusOf(Queued[1]) = "cancelled"
    /\ StatusOf(Queued[2]) = "pending"
    /\ \E i \in Jobs : StatusOf(i) = "done"
    /\ \E i \in Jobs : StatusOf(i) = "processing"

\* What of a job never changes.
Identity(job) == <<job.id, job.segmentId, job.effect, job.priority>>

\* C22: history only grows, and only at its end: a call of enqueue appends
\* one job whose id no earlier job has, and no step removes or moves a job or
\* changes its id, segmentId, effect or priority; history is as long as the
\* number of calls of enqueue. getStats reads history and assigns nothing.
HistoryAppendOnly ==
    /\ [][/\ Len(history') >= Len(history)
          /\ \A i \in Jobs : Identity(history'[i]) = Identity(history[i])
          /\ Submit =>
                 /\ Len(history') = Len(history) + 1
                 /\ \A i \in Jobs : history'[Len(history')].id # history[i].id
          /\ (Cancel \/ Resume) => Len(history') = Len(history)]_vars
    /\ [](/\ Len(history) = jobCounter
          /\ \A i, j \in Jobs : i # j => history[i].id # history[j].id)

\* Four jobs are in history in the order of their ids, one of them cancelled
\* by a later enqueue, one by cancelPendingForSegment, one done.
HistoryKeepsAllJobs ==
    /\ Len(history) = 4
    /\ \A i \in Jobs : history[i].id = i
    /\ \E i, j \in Jobs :
           /\ i < j
           /\ history[i].segmentId = history[j].segmentId
           /\ StatusOf(i) = "cancelled"
    /\ \E i \in Jobs :
           /\ StatusOf(i) = "cancelled"
           /\ \A j \in Jobs : j > i => history[j].segmentId # history[i].segmentId
    /\ \E i \in Jobs : StatusOf(i) = "done"

\* How many cancelled jobs stand at the head of a sequence of jobs.
RECURSIVE LeadingCancelled(_)
LeadingCancelled(jobs) ==
    IF jobs = <<>> \/ StatusOf(Head(jobs)) # "cancelled"
    THEN 0
    ELSE 1 + LeadingCancelled(Tail(jobs))

\* C26: the worker that goes on to the queue takes the cancelled jobs at its
\* head out of the queue one after the other in the same step, with a [SKIP]
\* line each and without changing their records or waiting for them; the
\* first job that is not cancelled becomes processing, and if there is none
\* the queue is empty and the worker idle.
CancelledHeadSkipped ==
    [][Resume =>
           LET skipped == LeadingCancelled(Queued)
               done == CHOOSE w \in suspended : w \notin suspended'
               lines == [n \in 1..skipped |-> Line("SKIP", Queued[n])]
           IN  /\ \A n \in 1..skipped :
                      /\ history'[Queued[n]] = history[Queued[n]]
                      /\ history'[Queued[n]].status = "cancelled"
                      /\ "durationMs" \notin DOMAIN history'[Queued[n]]
                      /\ \A w \in suspended' : w.job # Queued[n]
                      /\ Queued[n] \notin QueuedJobs'
               /\ IF skipped < Len(Queued)
                  THEN LET next == Queued[skipped + 1]
                       IN  /\ history'[next].status = "processing"
                           /\ isProcessing'
                           /\ suspended' =
                                  {[job |-> next,
                                    renderTime |->
                                        estimateRenderTime(history[next].effect)]}
                           /\ Queued' = SubSeq(Queued, skipped + 2, Len(Queued))
                           /\ log' = log \o <<Line("DONE", done.job)>> \o lines
                                         \o <<Line("START", next)>>
                  ELSE /\ Queued' = <<>>
                       /\ QueueIsEmpty(queue')
                       /\ ~isProcessing'
                       /\ suspended' = {}
                       /\ log' = log \o <<Line("DONE", done.job)>> \o lines]_vars

\* The worker finished a job, skipped two cancelled jobs and started the job
\* behind them, all in one step.
TwoSkippedThenStarted ==
    \E k \in DOMAIN log :
        /\ k + 3 = Len(log)
        /\ log[k].tag = "DONE"
        /\ log[k + 1].tag = "SKIP"
        /\ log[k + 2].tag = "SKIP"
        /\ log[k + 3].tag = "START"
        /\ StatusOf(log[k + 1].job) = "cancelled"
        /\ StatusOf(log[k + 3].job) = "processing"

\* The fields with the priority of every job replaced by one value.
WithoutPriority(st) ==
    [st EXCEPT
        !.history = [i \in 1..Len(@) |-> [@[i] EXCEPT !.priority = "normal"]]]

RECURSIVE PolicySum(_)
PolicySum(jobs) ==
    IF jobs = {}
    THEN 0
    ELSE LET i == CHOOSE j \in jobs : TRUE
         IN  estimateRenderTime(history[i].effect) + PolicySum(jobs \ {i})

\* Jobs of different segments, none cancelled, all done.
AllDoneDistinct ==
    /\ Jobs # {}
    /\ DistinctSegments
    /\ DoneJobs = Jobs

\* The most a timer is late.
MaxLateness == CHOOSE late \in Lateness : \A other \in Lateness : other <= late

\* C23 as stated: when jobs of different segments are all done and none was
\* cancelled, averageRenderTimeMs is the mean of the table's render times of
\* their effects.
AverageIsPolicyMean ==
    AllDoneDistinct =>
        GetStats(history).averageRenderTimeMs * Cardinality(Jobs) = PolicySum(Jobs)

\* C23: when jobs of different segments are all done and none was cancelled,
\* the durationMs of each is the table's render time of its effect and the
\* time by which its timer fired late, and averageRenderTimeMs lies between
\* the rounded mean of the table's render times and that mean and the
\* greatest lateness; it is the rounded mean of the table's render times when
\* every timer fired on time.
AverageIsPolicyMeanAndLateness ==
    AllDoneDistinct =>
        LET average == GetStats(history).averageRenderTimeMs
            n == Cardinality(Jobs)
            sum == PolicySum(Jobs)
        IN  /\ \A i \in Jobs :
                   history[i].durationMs - estimateRenderTime(history[i].effect)
                       \in Lateness
            /\ 2 * n * average > 2 * sum - n
            /\ 2 * n * average <= 2 * (sum + n * MaxLateness) + n
            /\ (\A i \in Jobs :
                    history[i].durationMs = estimateRenderTime(history[i].effect))
                   => 2 * n * average <= 2 * sum + n

\* Three jobs of three segments are done, each a millisecond late, and the
\* average is a millisecond above the mean of the table's render times.
AverageAbovePolicyMean ==
    /\ AllDoneDistinct
    /\ Cardinality(Jobs) = 3
    /\ PolicySum(Jobs) = 900
    /\ GetStats(history).averageRenderTimeMs = 301

Trabajos == DOMAIN historial

\* The [LISTO] lines of the print spooler, in order.
Listos == SelectSeq(salida, LAMBDA line : line.tag = "LISTO")

PosListo(i) == CHOOSE k \in DOMAIN Listos : Listos[k].job = i

\* C24: of two documents of the same priority the one sent first is the
\* first to be completado, procesarCola having been called once at most.
PrintedInOrderOfArrival ==
    llamadas <= 1 =>
        \A i, j \in Trabajos :
            (/\ i < j
             /\ historial[i].prioridad = historial[j].prioridad
             /\ historial[j].estado = "completado") =>
                /\ historial[i].estado = "completado"
                /\ PosListo(i) < PosListo(j)

\* C25: ordenDeAtencion of obtenerEstadisticas names the students of the
\* completed documents in the order in which the documents were printed,
\* procesarCola having been called once at most.
OrdenDeAtencionIsPrintOrder ==
    llamadas <= 1 =>
        ObtenerEstadisticas(historial).ordenDeAtencion
            = [k \in DOMAIN Listos |-> historial[Listos[k].job].estudiante]

\* C27: at most one document is imprimiendo at any time, however the calls
\* of enviarAImprimir and procesarCola fall.
OnePrintingAtATime ==
    Cardinality({i \in Trabajos : historial[i].estado = "imprimiendo"}) <= 1

====
